---- MODULE Spec2Model ----
(***************************************************************************)
(* A model of the transcript analysis engine of src/tracker.py:            *)
(* UsageTracker with its session cache, the Session Analyzer               *)
(* (_analyze_jsonl_file), the Usage Aggregator (get_all_sessions,          *)
(* calculate_usage) and the Context Estimator (estimate_context_usage).    *)
(*                                                                         *)
(* Representation.                                                         *)
(*  - Wall-clock time and record timestamps are whole epoch seconds.       *)
(*  - A string is a sequence of tokens; TokLen gives a token's number of   *)
(*    characters, so len(s) is StrLen(s) and "marker in s" is membership.  *)
(*  - A transcript line is a record: json = "invalid" (json.loads raises), *)
(*    "nonobject" (valid JSON that is no object) or "object".              *)
(*  - Hours are exact rationals: duration_hours is kept as its numerator   *)
(*    over 3600 (that is, in seconds).                                     *)
(***************************************************************************)
EXTENDS Integers, Sequences, FiniteSets, TLC

VARIABLES
    clock,            \* time.time(): wall-clock epoch seconds
    root_exists,      \* self.claude_projects.exists()
    dirs,             \* entries of ~/.claude/projects: name -> "absent" | "file" | "dir"
    files,            \* transcripts: path -> [exists, mtime, size, lines]
    cache,            \* self._cache: path -> [present, session]
    cache_time,       \* self._cache_time
    week_start,       \* self.week_start
    cycle_5h_start,   \* self.cycle_5h_start
    calls,            \* history: the last _analyze_jsonl_file calls made directly
    usage,            \* the UsageData of the last calculate_usage call
    context           \* the outcome of the last estimate_context_usage call

vars == <<clock, root_exists, dirs, files, cache, cache_time, week_start,
          cycle_5h_start, calls, usage, context>>

-----------------------------------------------------------------------------
\* Program constants

cache_duration == 5

CONTEXT_LIMIT == 200000

FRESH_WINDOW == 300

CHARS_PER_TOKEN == 4

BYTES_PER_TOKEN == 6

SECS_PER_HOUR == 3600

CYCLE_HOURS == 5

-----------------------------------------------------------------------------
\* Strings as token sequences

CMD_NAME == "<command-name>"

CMD_STDOUT == "<local-command-stdout>"

TokLen(t) ==
    CASE t = "hello" -> 5
      [] t = "foo" -> 3
      [] t = "lorem" -> 100
      [] t = CMD_NAME -> 14
      [] t = "</command-name>" -> 15
      [] t = CMD_STDOUT -> 22
      [] OTHER -> 1

RECURSIVE StrLen(_)
StrLen(s) == IF s = <<>> THEN 0 ELSE TokLen(Head(s)) + StrLen(Tail(s))

Contains(s, t) == \E i \in 1..Len(s) : s[i] = t

\* str.lower() on a token
LowerTok(t) ==
    CASE t = "Opus" -> "opus"
      [] t = "OPUS" -> "opus"
      [] t = "Sonnet" -> "sonnet"
      [] OTHER -> t

Lower(s) == [i \in 1..Len(s) |-> LowerTok(s[i])]

-----------------------------------------------------------------------------
\* Records of a transcript

NoTs == [kind |-> "absent", secs |-> 0, millis |-> 0]

IsoTs(s, ms) == [kind |-> "iso", secs |-> s, millis |-> ms]

OddTs(k) == [kind |-> k, secs |-> 0, millis |-> 0]

NoInput == [present |-> FALSE, empty |-> TRUE, dumps_len |-> 0]

EmptyInput == [present |-> TRUE, empty |-> TRUE, dumps_len |-> 2]

ObjInput(n) == [present |-> TRUE, empty |-> FALSE, dumps_len |-> n]

NoNested == [kind |-> "absent", str |-> <<>>, texts |-> <<>>]

NestedStr(s) == [kind |-> "str", str |-> s, texts |-> <<>>]

NestedList(ts) == [kind |-> "list", str |-> <<>>, texts |-> ts]

Block(ty, tx, inp, nested) == [type |-> ty, text |-> tx, input |-> inp, content |-> nested]

TextBlock(tx) == Block("text", tx, NoInput, NoNested)

NoContent == [kind |-> "absent", str |-> <<>>, blocks |-> <<>>]

StrContent(s) == [kind |-> "str", str |-> s, blocks |-> <<>>]

ListContent(bs) == [kind |-> "list", str |-> <<>>, blocks |-> bs]

NoMessage == [kind |-> "absent", role |-> "", model |-> <<>>, content |-> NoContent]

NotObjMessage == [kind |-> "notobj", role |-> "", model |-> <<>>, content |-> NoContent]

Message(r, m, c) == [kind |-> "obj", role |-> r, model |-> m, content |-> c]

Rec(ty, ts, meta, ut, msg) ==
    [json |-> "object", type |-> ty, timestamp |-> ts, isMeta |-> meta,
     userType |-> ut, message |-> msg]

InvalidLine ==
    [json |-> "invalid", type |-> "", timestamp |-> NoTs, isMeta |-> FALSE,
     userType |-> "", message |-> NoMessage]

NonObjectLine ==
    [json |-> "nonobject", type |-> "", timestamp |-> NoTs, isMeta |-> FALSE,
     userType |-> "", message |-> NoMessage]

UserRec(ts, c) == Rec("user", ts, FALSE, "external", Message("user", <<>>, c))

AsstRec(ts, m) == Rec("assistant", ts, FALSE, "", Message("assistant", m, NoContent))

OPUS_MODEL == <<"claude", "-", "Opus", "-", "4">>

SONNET_MODEL == <<"claude", "-", "sonnet", "-", "4">>

HAIKU_MODEL == <<"claude", "-", "haiku">>

-----------------------------------------------------------------------------
\* Timestamp Parser

NoValue == [ok |-> FALSE, epoch |-> 0]

\* _parse_timestamp: empty and "null" give None; the fraction is cut off
\* before parsing; what fromisoformat rejects gives None.
ParseTimestamp(ts) ==
    IF ts.kind \in {"absent", "empty", "null"} THEN NoValue
    ELSE IF ts.kind = "iso" THEN [ok |-> TRUE, epoch |-> ts.secs]
    ELSE NoValue

-----------------------------------------------------------------------------
\* Session Analyzer

IsMarked(s) == Contains(s, CMD_NAME) \/ Contains(s, CMD_STDOUT)

\* mutant: the block's type is not looked at
IsCommandMessage_AnyBlock(content) ==
    CASE content.kind = "str" -> IsMarked(content.str)
      [] content.kind = "list" ->
            \E i \in 1..Len(content.blocks) : IsMarked(content.blocks[i].text)
      [] OTHER -> FALSE

\* _is_command_message
IsCommandMessage(content) ==
    CASE content.kind = "str" -> IsMarked(content.str)
      [] content.kind = "list" ->
            \E i \in 1..Len(content.blocks) :
                /\ content.blocks[i].type = "text"
                /\ IsMarked(content.blocks[i].text)
      [] OTHER -> FALSE

\* truthiness of message.content
ContentTruthy(content) ==
    CASE content.kind = "str" -> content.str # <<>>
      [] content.kind = "list" -> content.blocks # <<>>
      [] content.kind = "dict" -> TRUE
      [] OTHER -> FALSE

\* "if ts := msg.get('timestamp'): if epoch := self._parse_timestamp(ts):"
\* both tests are truthiness tests, so the epoch value 0.0 does not pass.
CollectsTimestamp(line) ==
    /\ line.timestamp.kind \notin {"absent", "empty"}
    /\ ParseTimestamp(line.timestamp).ok
    /\ ParseTimestamp(line.timestamp).epoch # 0

\* the condition of lines 241-244 and 248
CountsAsPrompt(line) ==
    /\ line.type = "user"
    /\ line.message.kind = "obj"
    /\ line.message.role = "user"
    /\ ~line.isMeta
    /\ line.userType = "external"
    /\ ContentTruthy(line.message.content)
    /\ ~IsCommandMessage(line.message.content)

\* lines 252-257: "opus" is tested before "sonnet"
ModelFamily(line) ==
    IF line.type = "assistant" /\ line.message.kind = "obj"
    THEN IF Contains(Lower(line.message.model), "opus") THEN "opus"
         ELSE IF Contains(Lower(line.message.model), "sonnet") THEN "sonnet"
         ELSE "none"
    ELSE "none"

EmptyAcc == [timestamps |-> <<>>, prompts |-> 0, sonnet_responses |-> 0, opus_responses |-> 0]

\* one iteration of the loop of lines 231-259
ScanLine(acc, line) ==
    IF line.json # "object" THEN acc
    ELSE LET a1 == IF CollectsTimestamp(line)
                   THEN [acc EXCEPT !.timestamps =
                            Append(@, ParseTimestamp(line.timestamp).epoch)]
                   ELSE acc
         IN  IF CountsAsPrompt(line) THEN [a1 EXCEPT !.prompts = @ + 1]
             ELSE IF ModelFamily(line) = "opus" THEN [a1 EXCEPT !.opus_responses = @ + 1]
             ELSE IF ModelFamily(line) = "sonnet" THEN [a1 EXCEPT !.sonnet_responses = @ + 1]
             ELSE a1

\* mutant: a line that does not parse ends the scan
RECURSIVE ScanFrom_AbortOnInvalid(_, _)
ScanFrom_AbortOnInvalid(acc, lines) ==
    IF lines = <<>> THEN acc
    ELSE IF Head(lines).json = "invalid" THEN acc
    ELSE ScanFrom_AbortOnInvalid(ScanLine(acc, Head(lines)), Tail(lines))

RECURSIVE ScanFrom(_, _)
ScanFrom(acc, lines) ==
    IF lines = <<>> THEN acc ELSE ScanFrom(ScanLine(acc, Head(lines)), Tail(lines))

RECURSIVE SeqMin(_)
SeqMin(s) ==
    IF Len(s) = 1 THEN s[1]
    ELSE LET m == SeqMin(Tail(s)) IN IF s[1] < m THEN s[1] ELSE m

RECURSIVE SeqMax(_)
SeqMax(s) ==
    IF Len(s) = 1 THEN s[1]
    ELSE LET m == SeqMax(Tail(s)) IN IF s[1] > m THEN s[1] ELSE m

\* lines 263-283
MakeSession(path, acc) ==
    LET has == acc.timestamps # <<>>
        st == IF has THEN SeqMin(acc.timestamps) ELSE 0
        en == IF has THEN SeqMax(acc.timestamps) ELSE 0
    IN  [session_id |-> path[2], start_time |-> st, end_time |-> en,
         duration_hours |-> en - st, prompt_count |-> acc.prompts,
         sonnet_responses |-> acc.sonnet_responses,
         opus_responses |-> acc.opus_responses, project |-> path[1]]

\* lines 224-283: the scan of a file; a file that cannot be opened scans as empty
ScanFile(path, f) ==
    MakeSession(path, ScanFrom(EmptyAcc, IF f.exists THEN f.lines ELSE <<>>))

-----------------------------------------------------------------------------
\* The tracker and its cache

\* entries of the storage root: two project directories, a hidden directory
\* and a stray regular file
DIR_A == <<"-", "a">>

DIR_B == <<"-", "b">>

DIR_HIDDEN == <<".", "x">>

STRAY == <<"n">>

DirNames == {DIR_A, DIR_B, DIR_HIDDEN, STRAY}

Stems == {"s1", "s2"}

Paths == DirNames \X Stems

PA == <<DIR_A, "s1">>

PB == <<DIR_B, "s1">>

NoSession ==
    [session_id |-> "", start_time |-> 0, end_time |-> 0, duration_hours |-> 0,
     prompt_count |-> 0, sonnet_responses |-> 0, opus_responses |-> 0,
     project |-> <<>>]

\* an entry of self._cache; "at" is history (the time the entry was computed),
\* which the code does not keep
NoEntry == [present |-> FALSE, session |-> NoSession, at |-> 0]

NoFile == [exists |-> FALSE, mtime |-> 0, size |-> 0, lines |-> <<>>]

\* mutant: an entry is still served when exactly cache_duration old
CacheHit_Inclusive(c, ct, path, now) ==
    c[path].present /\ (now - ct) <= cache_duration

\* line 221: the entry is served while the one shared _cache_time is recent
CacheHit(c, ct, path, now) ==
    c[path].present /\ (now - ct) < cache_duration

\* _analyze_jsonl_file as a function of the tracker's cache state, the file
\* store and the time of the call: the session returned, whether the file was
\* opened, and the cache state left behind (lines 217-289)
Analyze(c, ct, path, now, fs) ==
    IF CacheHit(c, ct, path, now)
    THEN [session |-> c[path].session, read |-> FALSE, cache |-> c, cache_time |-> ct]
    ELSE LET s == ScanFile(path, fs[path])
         IN  [session |-> s, read |-> TRUE,
              cache |-> [c EXCEPT ![path] = [present |-> TRUE, session |-> s, at |-> now]],
              cache_time |-> now]

\* _get_5h_cycle_start
Get5hCycleStart(now) == ((now \div SECS_PER_HOUR) \div CYCLE_HOURS) * CYCLE_HOURS * SECS_PER_HOUR

\* history: the trailing run of direct calls on one path, its last three
Remember(log, e) ==
    IF log # <<>> /\ log[Len(log)].path # e.path THEN <<e>>
    ELSE IF Len(log) < 3 THEN Append(log, e)
    ELSE Append(Tail(log), e)

\* a direct call of _analyze_jsonl_file(path)
AnalyzeJsonlFile(path) ==
    LET r == Analyze(cache, cache_time, path, clock, files)
    IN  /\ cache' = r.cache
        /\ cache_time' = r.cache_time
        /\ calls' = Remember(calls, [path |-> path, at |-> clock, read |-> r.read,
                                     session |-> r.session, lines |-> files[path].lines,
                                     computed_at |-> r.cache[path].at])
        /\ UNCHANGED <<clock, root_exists, dirs, files, week_start, cycle_5h_start,
                       usage, context>>

-----------------------------------------------------------------------------
\* Context Estimator

RECURSIVE SumLens(_)
SumLens(texts) == IF texts = <<>> THEN 0 ELSE StrLen(Head(texts)) + SumLens(Tail(texts))

\* lines 160-171: what one block of a content list adds
BlockChars(b) ==
    StrLen(b.text)
    + (IF b.input.present /\ ~b.input.empty THEN b.input.dumps_len ELSE 0)
    + (IF b.content.kind = "list" THEN SumLens(b.content.texts) ELSE 0)

RECURSIVE BlocksChars(_)
BlocksChars(bs) == IF bs = <<>> THEN 0 ELSE BlockChars(Head(bs)) + BlocksChars(Tail(bs))

\* mutant: records of every type are counted
LineChars_AnyType(line) ==
    IF line.json # "object" THEN 0
    ELSE IF line.message.kind # "obj" THEN 0
    ELSE IF line.message.content.kind = "str" THEN StrLen(line.message.content.str)
    ELSE IF line.message.content.kind = "list" THEN BlocksChars(line.message.content.blocks)
    ELSE 0

\* lines 147-173: what one line adds to total_content_chars
LineChars(line) ==
    IF line.json # "object" THEN 0
    ELSE IF line.type \notin {"user", "assistant"} THEN 0
    ELSE IF line.message.kind # "obj" THEN 0
    ELSE IF line.message.content.kind = "str" THEN StrLen(line.message.content.str)
    ELSE IF line.message.content.kind = "list" THEN BlocksChars(line.message.content.blocks)
    ELSE 0

RECURSIVE TotalContentChars(_)
TotalContentChars(lines) ==
    IF lines = <<>> THEN 0 ELSE LineChars(Head(lines)) + TotalContentChars(Tail(lines))

Max(a, b) == IF a >= b THEN a ELSE b

\* lines 178-180
EstimatedTokens(f) ==
    Max(f.size \div BYTES_PER_TOKEN, TotalContentChars(f.lines) \div CHARS_PER_TOKEN)

\* round(n / d) as Python's round on a float may give it: the nearest
\* integer, and either neighbour when n / d lies halfway between two
RoundSet(n, d) ==
    LET q == n \div d
        r == n % d
    IN  IF 2 * r < d THEN {q} ELSE IF 2 * r > d THEN {q + 1} ELSE {q, q + 1}

\* line 183 and 188: the percentage in tenths of a percent
PercentageSet(tokens) == RoundSet(tokens * 1000, CONTEXT_LIMIT)

\* line 106: project_path.replace('/', '-')
EncodePath(project_path) ==
    [i \in 1..Len(project_path) |-> IF project_path[i] = "/" THEN "-" ELSE project_path[i]]

EntryKind(name) == IF root_exists /\ name \in DOMAIN dirs THEN dirs[name] ELSE "absent"

\* project_dir.glob('*.jsonl')
JsonlFiles(name) ==
    IF EntryKind(name) = "dir" THEN {p \in Paths : p[1] = name /\ files[p].exists} ELSE {}

\* max(jsonl_files, key=st_mtime): a most recently modified one (which of
\* several is the directory listing's order)
MostRecent(ps) == {p \in ps : \A q \in ps : files[q].mtime <= files[p].mtime}

\* mutant: hidden directories are not passed over
RecentDirs_WithHidden(now) ==
    {d \in DOMAIN dirs :
        /\ dirs[d] = "dir"
        /\ JsonlFiles(d) # {}
        /\ \A p \in MostRecent(JsonlFiles(d)) : (now - files[p].mtime) < FRESH_WINDOW}

\* lines 112-121: the directories with recent activity
RecentDirs(now) ==
    {d \in DOMAIN dirs :
        /\ dirs[d] = "dir"
        /\ d[1] # "."
        /\ JsonlFiles(d) # {}
        /\ \A p \in MostRecent(JsonlFiles(d)) : (now - files[p].mtime) < FRESH_WINDOW}

DirMtime(d) == files[CHOOSE p \in MostRecent(JsonlFiles(d)) : TRUE].mtime

\* lines 107-128: the directories project_dir may end as; {} is "return None"
ResolveDirs(project_path, now) ==
    LET encoded == EncodePath(project_path)
    IN  IF EntryKind(encoded) # "absent" THEN {encoded}
        ELSE IF root_exists
        THEN {d \in RecentDirs(now) : \A e \in RecentDirs(now) : DirMtime(e) <= DirMtime(d)}
        ELSE {}

\* lines 100-135: the transcripts current_session may be; {} is "return None"
CurrentSessions(project_path, now) ==
    UNION {MostRecent(JsonlFiles(d)) : d \in ResolveDirs(project_path, now)}

\* lines 137-190 on the transcript resolved: the ContextData that may be returned
ContextOf(project_path, p) ==
    {[called |-> TRUE, found |-> TRUE, path |-> p, project_path |-> project_path,
      estimated_tokens |-> EstimatedTokens(files[p]), percentage |-> pct] :
        pct \in PercentageSet(EstimatedTokens(files[p]))}

\* estimate_context_usage(project_path): the ContextData that may be returned,
\* found = FALSE standing for None
ContextResults(project_path, now) ==
    IF CurrentSessions(project_path, now) = {}
    THEN {[called |-> TRUE, found |-> FALSE, path |-> PA, project_path |-> project_path,
           estimated_tokens |-> 0, percentage |-> 0]}
    ELSE UNION {ContextOf(project_path, p) : p \in CurrentSessions(project_path, now)}

\* a call of estimate_context_usage(project_path)
EstimateContextUsage(project_path) ==
    /\ context' \in ContextResults(project_path, clock)
    /\ UNCHANGED <<clock, root_exists, dirs, files, cache, cache_time, week_start,
                   cycle_5h_start, calls, usage>>

-----------------------------------------------------------------------------
\* Usage Aggregator

\* the transcripts get_all_sessions enumerates (lines 295-301)
Enumerated ==
    IF root_exists
    THEN {p \in Paths : dirs[p[1]] = "dir" /\ files[p].exists}
    ELSE {}

RECURSIVE Perms(_)
Perms(S) ==
    IF S = {} THEN {<<>>}
    ELSE UNION {{<<x>> \o q : q \in Perms(S \ {x})} : x \in S}

\* the orders iterdir and glob may list the transcripts in: directory by
\* directory
ListingOrders ==
    {o \in Perms(Enumerated) :
        \A i, k \in 1..Len(o) :
            (i < k /\ o[i][1] = o[k][1]) => \A j \in i..k : o[j][1] = o[i][1]}

\* mutant: sessions of zero duration are kept
IsRealSession_Any(session) == session.duration_hours >= 0

\* mutant: a session counts as soon as it has a timestamp
IsRealSession_Timed(session) == session.end_time > 0

\* line 303
IsRealSession(session) == session.duration_hours > 0

\* the loop of lines 299-304 over the transcripts in listing order: st holds
\* the cache state, the sessions kept and every session _analyze returned
RECURSIVE GetAllFrom(_, _, _)
GetAllFrom(order, st, now) ==
    IF order = <<>> THEN st
    ELSE LET r == Analyze(st.cache, st.cache_time, Head(order), now, files)
         IN  GetAllFrom(Tail(order),
                        [cache |-> r.cache, cache_time |-> r.cache_time,
                         sessions |-> IF IsRealSession(r.session)
                                      THEN Append(st.sessions, r.session)
                                      ELSE st.sessions,
                         returned |-> Append(st.returned, r.session)],
                        now)

\* get_all_sessions
GetAllSessions(order, now) ==
    GetAllFrom(order, [cache |-> cache, cache_time |-> cache_time,
                       sessions |-> <<>>, returned |-> <<>>], now)

RECURSIVE Since(_, _)
\* [s for s in sessions if s.start_time >= start]
Since(sessions, start) ==
    IF sessions = <<>> THEN <<>>
    ELSE IF Head(sessions).start_time >= start
    THEN <<Head(sessions)>> \o Since(Tail(sessions), start)
    ELSE Since(Tail(sessions), start)

RECURSIVE SumPrompts(_)
SumPrompts(sessions) ==
    IF sessions = <<>> THEN 0 ELSE Head(sessions).prompt_count + SumPrompts(Tail(sessions))

\* exact fractions n / d of a second-hour (3600 of them make an hour)
Frac(n, d) == [n |-> n, d |-> d]

FracAdd(a, b) == [n |-> a.n * b.d + b.n * a.d, d |-> a.d * b.d]

FracEq(a, b) == a.n * b.d = b.n * a.d

\* lines 327-332: one session's share for each model family
SonnetShare(session) ==
    LET total_responses == session.sonnet_responses + session.opus_responses
    IN  IF total_responses > 0
        THEN Frac(session.duration_hours * session.sonnet_responses, total_responses)
        ELSE Frac(0, 1)

\* mutant: the ratio is taken by integer division
OpusShare_FloorRatio(session) ==
    LET total_responses == session.sonnet_responses + session.opus_responses
    IN  IF total_responses > 0
        THEN Frac(session.duration_hours * (session.opus_responses \div total_responses), 1)
        ELSE Frac(0, 1)

OpusShare(session) ==
    LET total_responses == session.sonnet_responses + session.opus_responses
    IN  IF total_responses > 0
        THEN Frac(session.duration_hours * session.opus_responses, total_responses)
        ELSE Frac(0, 1)

RECURSIVE SonnetHours(_)
SonnetHours(sessions) ==
    IF sessions = <<>> THEN Frac(0, 1)
    ELSE FracAdd(SonnetShare(Head(sessions)), SonnetHours(Tail(sessions)))

RECURSIVE OpusHours(_)
OpusHours(sessions) ==
    IF sessions = <<>> THEN Frac(0, 1)
    ELSE FracAdd(OpusShare(Head(sessions)), OpusHours(Tail(sessions)))

\* round(hours, 2), in hundredths of an hour
Round2Set(x) == RoundSet(x.n * 100, x.d * SECS_PER_HOUR)

\* os.getcwd()
CWD == <<"/", "a">>

\* calculate_usage (lines 308-347)
CalculateUsage ==
    \E order \in ListingOrders :
      LET got == GetAllSessions(order, clock)
          week_sessions == Since(got.sessions, week_start)
          cycle_sessions == Since(got.sessions, cycle_5h_start)
          sonnet_hours == SonnetHours(week_sessions)
          opus_hours == OpusHours(week_sessions)
      IN  /\ cache' = got.cache
          /\ cache_time' = got.cache_time
          /\ context' \in ContextResults(CWD, clock)
          /\ \E ws \in Round2Set(sonnet_hours), wo \in Round2Set(opus_hours) :
                usage' = [valid |-> TRUE,
                          current_5h_prompts |-> SumPrompts(cycle_sessions),
                          current_5h_start |-> cycle_5h_start,
                          weekly_sonnet_hours |-> ws,
                          weekly_opus_hours |-> wo,
                          weekly_prompts |-> SumPrompts(week_sessions),
                          weekly_start |-> week_start,
                          last_updated |-> clock,
                          sessions |-> week_sessions,
                          sonnet_hours |-> sonnet_hours,
                          opus_hours |-> opus_hours,
                          all_sessions |-> got.sessions]
          /\ UNCHANGED <<clock, root_exists, dirs, files, week_start, cycle_5h_start, calls>>

-----------------------------------------------------------------------------
\* What every specification starts from: an existing storage root, no
\* transcript, a tracker just constructed at time t (lines 62-69)

NoUsage ==
    [valid |-> FALSE, current_5h_prompts |-> 0, current_5h_start |-> 0,
     weekly_sonnet_hours |-> 0, weekly_opus_hours |-> 0, weekly_prompts |-> 0,
     weekly_start |-> 0, last_updated |-> 0, sessions |-> <<>>,
     sonnet_hours |-> [n |-> 0, d |-> 1], opus_hours |-> [n |-> 0, d |-> 1],
     all_sessions |-> <<>>]

NoContext ==
    [called |-> FALSE, found |-> FALSE, path |-> PA, project_path |-> <<>>,
     estimated_tokens |-> 0, percentage |-> 0]

\* _get_week_start, for a local time zone UTC_OFFSET_HOURS ahead of UTC:
\* 1970-01-05 00:00 was a Monday midnight
UTC_OFFSET_HOURS == 0

SECS_PER_WEEK == 7 * 24 * SECS_PER_HOUR

FIRST_MONDAY == 4 * 24 * SECS_PER_HOUR

GetWeekStart(now) ==
    LET local == now + UTC_OFFSET_HOURS * SECS_PER_HOUR
    IN  now - ((local - FIRST_MONDAY) % SECS_PER_WEEK)

Constructed(t) ==
    /\ clock = t
    /\ cache = [p \in Paths |-> NoEntry]
    /\ cache_time = 0
    /\ week_start = GetWeekStart(t)
    /\ cycle_5h_start = Get5hCycleStart(t)
    /\ calls = <<>>
    /\ usage = NoUsage
    /\ context = NoContext

\* a storage root with its project directories and no stray entry
PlainStore ==
    /\ root_exists = TRUE
    /\ dirs = [d \in DirNames |-> IF d = STRAY THEN "absent" ELSE "dir"]

RECURSIVE SeqsUpTo(_, _)
SeqsUpTo(S, n) ==
    IF n = 0 THEN {<<>>}
    ELSE LET shorter == SeqsUpTo(S, n - 1)
         IN  shorter \cup {Append(q, x) : q \in shorter, x \in S}

FileOf(lines, mt, sz) == [exists |-> TRUE, mtime |-> mt, size |-> sz, lines |-> lines]

-----------------------------------------------------------------------------
\* SpecScan: the Session Analyzer on one transcript of a fresh tracker

MaxScanLines == 3

\* 2023-11-14 00:00 UTC, a Tuesday
BASE_DAY == 19675 * 24 * SECS_PER_HOUR

SCAN_NOW == BASE_DAY + 80000

TS_EARLY == SCAN_NOW - 10000

TS_LATE == SCAN_NOW - 2800

HELLO == <<"hello">>

CMD_FOO == <<CMD_NAME, "foo", "</command-name>">>

ScanLines ==
    { InvalidLine,
      NonObjectLine,
      UserRec(IsoTs(TS_EARLY, 123), StrContent(HELLO)),
      UserRec(IsoTs(TS_LATE, 0), StrContent(CMD_FOO)),
      UserRec(NoTs, ListContent(<<TextBlock(HELLO), TextBlock(<<CMD_STDOUT, "foo">>)>>)),
      UserRec(NoTs, ListContent(<<Block("tool_result", <<CMD_NAME>>, NoInput, NoNested)>>)),
      UserRec(NoTs, StrContent(<<>>)),
      UserRec(OddTs("garbage"), ListContent(<<>>)),
      UserRec(OddTs("null"), [kind |-> "dict", str |-> <<>>, blocks |-> <<>>]),
      Rec("user", NoTs, TRUE, "external", Message("user", <<>>, StrContent(HELLO))),
      Rec("user", NoTs, FALSE, "internal", Message("user", <<>>, StrContent(HELLO))),
      Rec("user", NoTs, FALSE, "external", Message("assistant", <<>>, StrContent(HELLO))),
      Rec("user", IsoTs(TS_LATE, 999), FALSE, "external", NotObjMessage),
      Rec("summary", OddTs("empty"), FALSE, "external", Message("user", <<>>, StrContent(HELLO))),
      AsstRec(IsoTs(0, 0), OPUS_MODEL),
      AsstRec(NoTs, SONNET_MODEL) }

InitScan ==
    /\ Constructed(SCAN_NOW)
    /\ PlainStore
    /\ \E f \in {NoFile} \cup {FileOf(ls, SCAN_NOW, 0) : ls \in SeqsUpTo(ScanLines, MaxScanLines)} :
          files = [p \in Paths |-> IF p = PA THEN f ELSE NoFile]

NextScan == AnalyzeJsonlFile(PA)

SpecScan == InitScan /\ [][NextScan]_vars

\* the last direct call of _analyze_jsonl_file, when it opened the file
LastCall == calls[Len(calls)]

Scanned == calls # <<>> /\ LastCall.read

CountOf(lines, P(_)) == Cardinality({i \in 1..Len(lines) : P(lines[i])})

\* C4, in the claim's words: what makes a content a command message
C4_IsCommand(content) ==
    \/ content.kind = "str" /\ (Contains(content.str, CMD_NAME) \/ Contains(content.str, CMD_STDOUT))
    \/ /\ content.kind = "list"
       /\ \E i \in DOMAIN content.blocks :
             /\ content.blocks[i].type = "text"
             /\ \/ Contains(content.blocks[i].text, CMD_NAME)
                \/ Contains(content.blocks[i].text, CMD_STDOUT)

C4_NonEmpty(content) ==
    \/ content.kind = "str" /\ Len(content.str) > 0
    \/ content.kind = "list" /\ Len(content.blocks) > 0
    \/ content.kind = "dict"

C4_Qualifies(line) ==
    /\ line.json = "object"
    /\ line.type = "user"
    /\ line.message.kind = "obj" /\ line.message.role = "user"
    /\ line.isMeta # TRUE
    /\ line.userType = "external"
    /\ C4_NonEmpty(line.message.content)
    /\ ~C4_IsCommand(line.message.content)

\* C4: prompt_count of a scan is the number of records that are user records
\* with role user, not meta, userType external, non-empty content that is no
\* command message; a record "<command-name>foo</command-name>" adds nothing.
C4_PromptCount ==
    Scanned =>
        /\ LastCall.session.prompt_count = CountOf(LastCall.lines, C4_Qualifies)
        /\ (\A i \in DOMAIN LastCall.lines :
                LastCall.lines[i].message.content = StrContent(CMD_FOO))
              => LastCall.session.prompt_count = 0

C4_Witness ==
    /\ Scanned
    /\ Len(LastCall.lines) = 3
    /\ LastCall.lines[1] = UserRec(IsoTs(TS_LATE, 0), StrContent(CMD_FOO))
    /\ LastCall.lines[2] = UserRec(IsoTs(TS_EARLY, 123), StrContent(HELLO))
    /\ LastCall.lines[3].message.content.kind = "list"
    /\ LastCall.lines[3].message.content.blocks # <<>>
    /\ LastCall.lines[3].message.content.blocks[1].type = "tool_result"
    /\ LastCall.session.prompt_count = 2

\* the transcript without the lines json.loads rejects
RECURSIVE WithoutInvalid(_)
WithoutInvalid(lines) ==
    IF lines = <<>> THEN <<>>
    ELSE IF Head(lines).json = "invalid" THEN WithoutInvalid(Tail(lines))
    ELSE <<Head(lines)>> \o WithoutInvalid(Tail(lines))

\* C9: a scan returns the Session of the same transcript with its unparseable
\* lines removed: such a line changes no accumulator and does not end the scan.
C9_InvalidLinesSkipped ==
    Scanned =>
        LastCall.session =
            MakeSession(LastCall.path, ScanFrom(EmptyAcc, WithoutInvalid(LastCall.lines)))

C9_Witness ==
    /\ Scanned
    /\ Len(LastCall.lines) = 3
    /\ LastCall.lines[1] = UserRec(IsoTs(TS_EARLY, 123), StrContent(HELLO))
    /\ LastCall.lines[2] = InvalidLine
    /\ LastCall.lines[3] = UserRec(IsoTs(TS_LATE, 0), StrContent(CMD_FOO))
    /\ LastCall.session.prompt_count = 1
    /\ LastCall.session.start_time = TS_EARLY
    /\ LastCall.session.end_time = TS_LATE

\* the epoch values the Timestamp Parser resolves the records' timestamps to
C10_Resolved(lines) ==
    {ParseTimestamp(lines[i].timestamp).epoch :
        i \in {j \in DOMAIN lines : /\ lines[j].json = "object"
                                     /\ ParseTimestamp(lines[j].timestamp).ok}}

\* C10: start_time and end_time of a scan are the minimum and the maximum of
\* the epoch values of all records whose timestamp the parser resolves, the
\* value 0 included, and are 0/0 only when no record has such a timestamp.
C10_AllParsedCollected ==
    Scanned =>
        LET R == C10_Resolved(LastCall.lines)
        IN  IF R = {} THEN LastCall.session.start_time = 0 /\ LastCall.session.end_time = 0
            ELSE /\ LastCall.session.start_time \in R
                 /\ LastCall.session.end_time \in R
                 /\ \A e \in R : LastCall.session.start_time <= e /\ e <= LastCall.session.end_time

-----------------------------------------------------------------------------
\* SpecCache: direct calls of the Session Analyzer on two transcripts while
\* the clock advances and the host application appends records

MaxCacheTicks == 5

MaxCacheLines == 1

CACHE_T0 == SCAN_NOW

CacheLine == UserRec(IsoTs(TS_EARLY, 0), StrContent(HELLO))

\* time passes between calls
Advance(until) ==
    /\ clock < until
    /\ clock' = clock + 1
    /\ UNCHANGED <<root_exists, dirs, files, cache, cache_time, week_start,
                   cycle_5h_start, calls, usage, context>>

Tick == Advance(CACHE_T0 + MaxCacheTicks)

\* the host application appends a record to a transcript
AppendRecord(path, line) ==
    /\ files[path].exists
    /\ Len(files[path].lines) < MaxCacheLines
    /\ files' = [files EXCEPT ![path].lines = Append(@, line), ![path].mtime = clock,
                              ![path].size = @ + 100]
    /\ UNCHANGED <<clock, root_exists, dirs, cache, cache_time, week_start,
                   cycle_5h_start, calls, usage, context>>

InitCache ==
    /\ Constructed(CACHE_T0)
    /\ PlainStore
    /\ files = [p \in Paths |-> IF p = PA THEN FileOf(<<>>, CACHE_T0, 0)
                                ELSE IF p = PB THEN FileOf(<<CacheLine>>, CACHE_T0, 0)
                                ELSE NoFile]

NextCache ==
    \/ Tick
    \/ AppendRecord(PA, CacheLine)
    \/ \E p \in {PA, PB} : AnalyzeJsonlFile(p)

SpecCache == InitCache /\ [][NextCache]_vars

\* C1: a call never returns an entry computed cache_duration seconds ago or
\* earlier, whatever other paths were analyzed in the meantime; it recomputes.
C1_StaleEntryRecomputed ==
    calls # <<>> =>
        (LastCall.at - LastCall.computed_at >= cache_duration => LastCall.read)

\* the last three calls of the current run of direct calls on one path
Call(k) == calls[Len(calls) - 3 + k]

C2_Scenario ==
    /\ Len(calls) >= 3
    /\ Call(1).path = Call(2).path /\ Call(2).path = Call(3).path
    /\ Call(1).read
    /\ Call(2).at - Call(1).at < cache_duration
    /\ Call(3).at - Call(1).at >= cache_duration

\* C2: of three successive calls on one path, the first reading the file, the
\* second within the time-to-live returns the same Session without opening
\* the file, and the third, after the time-to-live, re-reads the file and
\* replaces the cache entry.
C2_HitThenReread ==
    C2_Scenario =>
        /\ ~Call(2).read
        /\ Call(2).session = Call(1).session
        /\ Call(3).read
        /\ Call(3).session = ScanFile(Call(3).path, [files[Call(3).path] EXCEPT !.lines = Call(3).lines])
        /\ cache[Call(3).path] = [present |-> TRUE, session |-> Call(3).session, at |-> Call(3).at]

C2_Witness ==
    /\ C2_Scenario
    /\ Call(2).lines # Call(1).lines
    /\ Call(2).session = Call(1).session
    /\ Call(3).session # Call(1).session

-----------------------------------------------------------------------------
\* SpecContext: the Context Estimator on one transcript of the working project

MaxContextLines == 2

CTX_NOW == SCAN_NOW

FileSizes == {144, 600}

LOREM == <<"lorem">>

ContextLines ==
    { InvalidLine,
      UserRec(NoTs, StrContent(HELLO)),
      UserRec(NoTs, StrContent(LOREM)),
      Rec("summary", NoTs, FALSE, "", Message("", <<>>, StrContent(LOREM))),
      Rec("assistant", NoTs, FALSE, "", NotObjMessage),
      AsstRec(NoTs, OPUS_MODEL),
      Rec("assistant", NoTs, FALSE, "",
          Message("assistant", SONNET_MODEL,
                  ListContent(<<TextBlock(<<"foo", "foo">>),
                                Block("tool_use", <<>>, ObjInput(40), NoNested)>>))),
      Rec("assistant", NoTs, FALSE, "",
          Message("assistant", SONNET_MODEL,
                  ListContent(<<Block("tool_use", <<>>, EmptyInput, NoNested)>>))),
      UserRec(NoTs, ListContent(<<Block("tool_result", <<>>, NoInput,
                                        NestedList(<<LOREM, <<>>, HELLO>>))>>)),
      UserRec(NoTs, ListContent(<<Block("tool_result", <<>>, NoInput, NestedStr(LOREM))>>)) }

ProjectPaths == {<<"/", "a">>, <<"/", "b">>, <<"/", "c">>}

InitContext ==
    /\ Constructed(CTX_NOW)
    /\ PlainStore
    /\ \E ls \in SeqsUpTo(ContextLines, MaxContextLines), sz \in FileSizes :
          /\ TotalContentChars(ls) <= sz
          /\ files = [p \in Paths |-> IF p = PA THEN FileOf(ls, CTX_NOW - 10, sz) ELSE NoFile]

NextContext == \E pp \in {<<"/", "a">>, <<"/", "b">>} : EstimateContextUsage(pp)

SpecContext == InitContext /\ [][NextContext]_vars

\* the sum of f over the indices of a sequence
RECURSIVE SumTo(_, _)
SumTo(f, n) == IF n = 0 THEN 0 ELSE f[n] + SumTo(f, n - 1)

SumSeq(f) == SumTo(f, Len(f))

\* C6, in the claim's words: the extracted text length of a record's content
C6_BlockLen(b, emptyInputCounts) ==
    StrLen(b.text)
    + (IF b.input.present /\ (emptyInputCounts \/ ~b.input.empty) THEN b.input.dumps_len ELSE 0)
    + (IF b.content.kind = "list"
       THEN SumSeq([k \in DOMAIN b.content.texts |-> StrLen(b.content.texts[k])])
       ELSE 0)

C6_ContentLen(line, emptyInputCounts) ==
    IF line.json # "object" \/ line.message.kind # "obj" THEN 0
    ELSE IF line.message.content.kind = "str" THEN StrLen(line.message.content.str)
    ELSE IF line.message.content.kind = "list"
    THEN SumSeq([k \in DOMAIN line.message.content.blocks |->
                    C6_BlockLen(line.message.content.blocks[k], emptyInputCounts)])
    ELSE 0

\* C as claimed: over every record
C6_AllRecords(lines) ==
    SumSeq([i \in DOMAIN lines |-> C6_ContentLen(lines[i], TRUE)])

\* C as amended: over the user and assistant records, a block's input
\* counting when it is non-empty
C6_MessageRecords(lines) ==
    SumSeq([i \in DOMAIN lines |->
               IF lines[i].type \in {"user", "assistant"}
               THEN C6_ContentLen(lines[i], FALSE) ELSE 0])

C6_Largest(a, b) == CHOOSE m \in {a, b} : m >= a /\ m >= b

\* C6 as claimed: estimated_tokens = max(file_size // 6, C // 4) with C summed
\* over every record of the transcript
C6_AsClaimed ==
    (context.called /\ context.found) =>
        context.estimated_tokens =
            C6_Largest(files[context.path].size \div 6,
                       C6_AllRecords(files[context.path].lines) \div 4)

\* C6 amended: estimated_tokens = max(file_size // 6, C // 4) with C summed
\* over the records whose type is user or assistant (a block's input counted
\* when non-empty); "hello" in a 600-byte file gives 100.
C6_TokensFromMessageRecords ==
    (context.called /\ context.found) =>
        /\ context.estimated_tokens =
              C6_Largest(files[context.path].size \div 6,
                         C6_MessageRecords(files[context.path].lines) \div 4)
        /\ (files[context.path].lines = <<UserRec(NoTs, StrContent(HELLO))>>
              /\ files[context.path].size = 600) => context.estimated_tokens = 100

C6_Witness ==
    /\ context.called /\ context.found
    /\ files[context.path].size = 144
    /\ Len(files[context.path].lines) = 2
    /\ files[context.path].lines[1].type = "summary"
    /\ files[context.path].lines[2].message.content.kind = "list"
    /\ files[context.path].lines[2].message.content.blocks[1].content.kind = "list"
    /\ context.estimated_tokens = 26

-----------------------------------------------------------------------------
\* SpecResolve: transcript resolution over storage roots of every shape

MTimes == {CTX_NOW - FRESH_WINDOW, CTX_NOW - FRESH_WINDOW + 1, CTX_NOW - 10}

ResolveLines == <<UserRec(NoTs, StrContent(HELLO))>>

\* the transcripts a directory may hold
DirFiles(d) ==
    IF d = STRAY THEN {}
    ELSE IF d = DIR_HIDDEN THEN {<<d, "s1">>}
    ELSE {<<d, st>> : st \in Stems}

InitResolve ==
    /\ Constructed(CTX_NOW)
    /\ root_exists \in BOOLEAN
    /\ dirs \in [DirNames -> {"absent", "file", "dir"}]
    /\ \A d \in DirNames :
          /\ (dirs[d] = "file") => (d = STRAY)
          /\ (dirs[d] = "dir") => (d # STRAY)
          /\ (dirs[d] # "absent") => root_exists
    /\ files \in [Paths -> {NoFile} \cup {FileOf(ResolveLines, mt, 600) : mt \in MTimes}]
    /\ \A p \in Paths : files[p].exists => (dirs[p[1]] = "dir" /\ p \in DirFiles(p[1]))

NextResolve == \E pp \in ProjectPaths : EstimateContextUsage(pp)

SpecResolve == InitResolve /\ [][NextResolve]_vars

C8_Transcripts(d) == {p \in Paths : p[1] = d /\ files[p].exists}

C8_Newest(p, ps) == p \in ps /\ \A q \in ps : files[q].mtime <= files[p].mtime

C8_DirExists(d) == root_exists /\ d \in DOMAIN dirs /\ dirs[d] = "dir"

\* the non-hidden subdirectories whose newest transcript is younger than 300 s
C8_Candidates ==
    {d \in DOMAIN dirs :
        /\ C8_DirExists(d)
        /\ Head(d) # "."
        /\ \E p \in C8_Transcripts(d) :
              C8_Newest(p, C8_Transcripts(d)) /\ clock - files[p].mtime < 300}

\* C8: with the encoded project directory present, the current transcript is
\* its most recently modified one, and None if it holds none; only without
\* that directory the most recently modified transcript of the non-hidden
\* directories active in the last 300 seconds is taken, and None if there is
\* none or no storage root.
C8_Resolution ==
    context.called =>
        LET enc == EncodePath(context.project_path)
            pool == UNION {C8_Transcripts(d) : d \in C8_Candidates}
        IN  IF C8_DirExists(enc)
            THEN IF C8_Transcripts(enc) = {} THEN ~context.found
                 ELSE context.found /\ C8_Newest(context.path, C8_Transcripts(enc))
            ELSE IF ~root_exists \/ C8_Candidates = {} THEN ~context.found
                 ELSE /\ context.found
                      /\ context.path[1] \in C8_Candidates
                      /\ C8_Newest(context.path, pool)

\* the fallback chooses between two active directories, passing over a
\* hidden one and one gone stale
C8_Witness ==
    /\ context.called /\ context.found
    /\ context.project_path = <<"/", "c">>
    /\ context.path = <<DIR_B, "s2">>
    /\ files[<<DIR_B, "s2">>].mtime = CTX_NOW - FRESH_WINDOW + 1
    /\ files[<<DIR_B, "s1">>].exists /\ files[<<DIR_B, "s1">>].mtime = CTX_NOW - FRESH_WINDOW
    /\ files[PA].exists /\ files[PA].mtime = CTX_NOW - FRESH_WINDOW
    /\ files[<<DIR_HIDDEN, "s1">>].exists /\ files[<<DIR_HIDDEN, "s1">>].mtime = CTX_NOW - 10
    /\ dirs[STRAY] = "file"

-----------------------------------------------------------------------------
\* SpecUsage: calculate_usage on a tracker constructed shortly before a
\* 5-hour cycle ends, over two projects' transcripts

MaxUsageLines == 2

MaxUsageTicks == 2

\* two seconds before a 5-hour cycle ends
USAGE_T0 == SCAN_NOW + 9998

\* before the week of USAGE_T0
TS_OLD == SCAN_NOW - 200000

\* in the week of USAGE_T0, before its cycle
TS_WEEK == SCAN_NOW - 100000

\* in the cycle of USAGE_T0
TS_CYCLE == SCAN_NOW - 5000

TS_CYCLE_LATER == SCAN_NOW

UsageLines ==
    { UserRec(IsoTs(TS_WEEK, 0), StrContent(HELLO)),
      UserRec(IsoTs(TS_CYCLE, 500), StrContent(HELLO)),
      UserRec(NoTs, StrContent(HELLO)),
      AsstRec(IsoTs(TS_CYCLE_LATER, 0), OPUS_MODEL),
      AsstRec(NoTs, SONNET_MODEL) }

OtherTranscripts ==
    { <<UserRec(NoTs, StrContent(HELLO)), AsstRec(NoTs, SONNET_MODEL)>>,
      <<UserRec(IsoTs(TS_CYCLE, 0), StrContent(HELLO)),
        AsstRec(IsoTs(TS_CYCLE + SECS_PER_HOUR, 0), SONNET_MODEL)>>,
      <<UserRec(IsoTs(TS_OLD, 0), StrContent(HELLO)),
        AsstRec(IsoTs(TS_WEEK, 0), OPUS_MODEL),
        AsstRec(IsoTs(TS_WEEK, 0), HAIKU_MODEL)>>,
      <<AsstRec(IsoTs(TS_CYCLE, 0), OPUS_MODEL),
        AsstRec(IsoTs(TS_CYCLE_LATER, 0), SONNET_MODEL),
        AsstRec(NoTs, <<"claude", "-", "OPUS">>)>>,
      <<UserRec(IsoTs(TS_CYCLE, 0), StrContent(HELLO)),
        UserRec(IsoTs(TS_CYCLE, 500), StrContent(HELLO))>> }

UsageTick == Advance(USAGE_T0 + MaxUsageTicks)

InitUsage ==
    /\ Constructed(USAGE_T0)
    /\ PlainStore
    /\ \E la \in SeqsUpTo(UsageLines, MaxUsageLines), lb \in OtherTranscripts :
          files = [p \in Paths |-> IF p = PA THEN FileOf(la, USAGE_T0, 600)
                                  ELSE IF p = PB THEN FileOf(lb, USAGE_T0 - FRESH_WINDOW, 600)
                                  ELSE NoFile]

NextUsage == UsageTick \/ CalculateUsage

SpecUsage == InitUsage /\ [][NextUsage]_vars

\* C3: the cycle start calculate_usage reports, and selects the cycle subset
\* by, is the latest multiple of 5 hours since the epoch that is <= the time
\* of the call.
C3_CycleStartCurrent ==
    usage.valid =>
        LET latest == usage.last_updated - (usage.last_updated % (5 * 3600))
        IN  /\ usage.current_5h_start = latest
            /\ usage.current_5h_prompts = SumPrompts(Since(usage.all_sessions, latest))

RECURSIVE SetSum(_, _)
SetSum(f, S) ==
    IF S = {} THEN 0
    ELSE LET x == CHOOSE y \in S : TRUE IN f[x] + SetSum(f, S \ {x})

RECURSIVE SetFracSum(_, _)
SetFracSum(f, S) ==
    IF S = {} THEN Frac(0, 1)
    ELSE LET x == CHOOSE y \in S : TRUE IN FracAdd(f[x], SetFracSum(f, S \ {x}))

\* the transcripts from which a scan collects no timestamp
C5_Timeless ==
    {p \in Enumerated : ScanFrom(EmptyAcc, files[p].lines).timestamps = <<>>}

\* the transcripts that are not timeless and count in a window from start on
C5_Counted(start) ==
    {p \in Enumerated \ C5_Timeless :
        /\ ScanFile(p, files[p]).duration_hours > 0
        /\ ScanFile(p, files[p]).start_time >= start}

C5_IsOf(session, p) == session.session_id = p[2] /\ session.project = p[1]

\* C5: a transcript from which no timestamp was collected has a Session with
\* start_time 0, end_time 0 and duration 0, is left out by get_all_sessions,
\* and adds nothing to the cycle and weekly prompt counts, the weekly
\* per-model hours and the weekly session list, whatever its counters are.
C5_TimelessContributesNothing ==
    usage.valid =>
        /\ \A p \in C5_Timeless :
              /\ cache[p].present
              /\ cache[p].session.start_time = 0
              /\ cache[p].session.end_time = 0
              /\ cache[p].session.duration_hours = 0
              /\ \A i \in DOMAIN usage.all_sessions : ~C5_IsOf(usage.all_sessions[i], p)
              /\ \A i \in DOMAIN usage.sessions : ~C5_IsOf(usage.sessions[i], p)
        /\ usage.current_5h_prompts =
              SetSum([p \in Paths |-> ScanFile(p, files[p]).prompt_count],
                     C5_Counted(usage.current_5h_start))
        /\ usage.weekly_prompts =
              SetSum([p \in Paths |-> ScanFile(p, files[p]).prompt_count],
                     C5_Counted(usage.weekly_start))
        /\ FracEq(usage.sonnet_hours,
                  SetFracSum([p \in Paths |-> SonnetShare(ScanFile(p, files[p]))],
                             C5_Counted(usage.weekly_start)))
        /\ FracEq(usage.opus_hours,
                  SetFracSum([p \in Paths |-> OpusShare(ScanFile(p, files[p]))],
                             C5_Counted(usage.weekly_start)))

C5_Witness ==
    /\ usage.valid
    /\ PA \in C5_Timeless
    /\ cache[PA].session.prompt_count = 1
    /\ cache[PA].session.sonnet_responses = 1
    /\ PB \notin C5_Timeless
    /\ usage.weekly_prompts = 1
    /\ usage.sonnet_hours.n > 0

\* the week-subset sessions with at least one attributed response
C7_Attributed ==
    {i \in DOMAIN usage.sessions :
        usage.sessions[i].sonnet_responses + usage.sessions[i].opus_responses > 0}

RECURSIVE SeqRange(_)
SeqRange(q) == IF q = <<>> THEN {} ELSE {Head(q)} \cup SeqRange(Tail(q))

\* the distinct epoch values a scan of transcript p collects
C11_Collected(p) == SeqRange(ScanFrom(EmptyAcc, files[p].lines).timestamps)

\* the transcripts with at least two distinct collected timestamps
C11_Spanning == {p \in Enumerated : Cardinality(C11_Collected(p)) >= 2}

C11_SpanningSince(start) ==
    {p \in C11_Spanning : \A t \in C11_Collected(p) : t >= start}

C11_Prompts == [p \in Paths |-> CountOf(files[p].lines, CountsAsPrompt)]

\* C11: get_all_sessions includes a transcript's Session exactly when the
\* transcript yielded at least two distinct collected timestamps, that is
\* when end_time > start_time; a transcript whose collected timestamps are
\* all equal has duration 0, and its prompt_count is in neither the cycle nor
\* the weekly prompt total of calculate_usage.
C11_IncludedIffSpanning ==
    usage.valid =>
        /\ \A p \in Enumerated :
              LET included == \E i \in DOMAIN usage.all_sessions :
                                  C5_IsOf(usage.all_sessions[i], p)
              IN  /\ cache[p].present
                  /\ included <=> (p \in C11_Spanning)
                  /\ included <=> (cache[p].session.end_time > cache[p].session.start_time)
                  /\ (Cardinality(C11_Collected(p)) = 1) =>
                        /\ cache[p].session.duration_hours = 0
                        /\ cache[p].session.end_time = cache[p].session.start_time
                        /\ \A i \in DOMAIN usage.sessions : ~C5_IsOf(usage.sessions[i], p)
        /\ usage.current_5h_prompts =
              SetSum(C11_Prompts, C11_SpanningSince(usage.current_5h_start))
        /\ usage.weekly_prompts =
              SetSum(C11_Prompts, C11_SpanningSince(usage.weekly_start))

\* one transcript holds two prompts with one and the same timestamp in the
\* cycle, the other spans an hour of the cycle: only the other one counts
C11_Witness ==
    /\ usage.valid
    /\ Cardinality(C11_Collected(PA)) = 1
    /\ \A t \in C11_Collected(PA) : t >= usage.current_5h_start
    /\ Len(ScanFrom(EmptyAcc, files[PA].lines).timestamps) = 2
    /\ cache[PA].session.prompt_count = 2
    /\ PB \in C11_Spanning
    /\ Len(usage.all_sessions) = 1
    /\ usage.current_5h_prompts = 1
    /\ usage.weekly_prompts = 1

====
